---- MODULE Spec2Model ----
(***************************************************************************)
(* A model of lib/job_manager.js (manta-mola): JobManager.prototype.run    *)
(* and the stages it pipelines, against a job service (Marlin) and an      *)
(* object store (Manta) whose calls may fail.                              *)
(*                                                                         *)
(* One action is one callback of the code: the state changes at the I/O    *)
(* boundaries, and what a callback does synchronously is one step.         *)
(***************************************************************************)
EXTENDS Integers, Sequences, FiniteSets

(***************************************************************************)
(* Bounds of the model.                                                    *)
(***************************************************************************)
\* job ids the job service can hand out: 1..MaxJobs
MaxJobs == 2
\* the clock advances at most MaxTicks times
MaxTicks == 2
\* per-job audit records are counted up to LogCap
LogCap == 2
\* LiveSpec only: how many obstacles (failed calls, failed hooks, disabled
\* runs, foreign jobs) the environment may still put in the way
MaxObstacles == 1
\* OverlapSpec only: how often two overlapping invocations take turns (a
\* switch, or a run that starts beside a suspended invocation)
MaxSwitches == 3

(***************************************************************************)
(* Program constants.                                                      *)
(***************************************************************************)
QUEUED_STATE == "queued"
RUNNING_STATE == "running"
MAX_SECONDS_IN_AUDIT_OBJECT == 60 * 60 * 24 * 7

\* one clock tick is four days, in milliseconds: two ticks pass the retention
TickMillis == 4 * 24 * 60 * 60 * 1000

JobIds == 1 .. MaxJobs

VARIABLES
    pc,            \* where the current invocation of run() is
    cfg,           \* self.opts: the configuration of the current invocation
    store,         \* the object at opts.previousJobsObject (jobs.json)
    previousJobs,  \* opts.previousJobs: the working ledger
    jobs,          \* the job service: the jobs with name opts.jobName
    now,           \* the clock, in ticks
    jobsToAudit,   \* auditPreviousJobs: ids of the entries to audit, in key order
    jobsToDelete,  \* auditPreviousJobs: ids of the entries past the retention
    jobObjects,    \* auditPreviousJobs: results.successes, in completion order
    runningJob,    \* checkRunningJobs: the id cancelJob was called on (0: none)
    jobId,         \* opts.jobId: the id createJob returned (0: none)
    err,           \* the error the pipeline ended with ("none": no error)
    audit,         \* self.audit: startedJob and cronFailed
    trace,         \* what the invocation did at its end: "put", "audit", "cb"
    err2,          \* the error recordJobs called back with ("none": no error)
    cbErr,         \* the error given to the caller's callback
    calls,         \* remote calls of this invocation: createJob, cancelJob
    auditLog,      \* per job id: the per-job audit records logged so far
    startStore,    \* history: the stored document when the invocation started
    wasAudited,    \* history: ids ever stored with audited = true
    soleCreator,   \* history: at most one live job at the start, no foreign job since
    budget,        \* obstacles left (-1: unlimited)
    operations,    \* auditPreviousJobs: the status of results2.operations, in order
    logged,        \* per job id: the per-job audit records this invocation logged
    runningJobs,   \* checkResults: the ids of the jobs found not 'done'
    reconciled,    \* history: opts.previousJobs when auditPreviousJobs called back
    stages,        \* history: the pipeline's stages this invocation has started
    other,         \* an overlapping invocation's state while it is suspended
    switches       \* how often the two invocations have taken turns

vars == <<pc, cfg, store, previousJobs, jobs, now, jobsToAudit, jobsToDelete,
          jobObjects, runningJob, jobId, err, audit, trace, err2, cbErr, calls,
          auditLog, startStore, wasAudited, soleCreator, budget, operations,
          logged, runningJobs, reconciled, stages, other, switches>>

(***************************************************************************)
(* Values.                                                                 *)
(***************************************************************************)
\* a ledger: a function from a set of job ids to {timeCreated, audited}
EmptyLedger == [id \in {} |-> [timeCreated |-> 0, audited |-> FALSE]]

\* the stored document: absent, not parseable, or a JSON ledger
Missing == [kind |-> "missing", jobs |-> EmptyLedger]
Corrupt == [kind |-> "corrupt", jobs |-> EmptyLedger]
Json(ledger) == [kind |-> "json", jobs |-> ledger]

NoJob == [state |-> "none", inputDone |-> FALSE, mine |-> FALSE]

Configs ==
    [forceRun : BOOLEAN, disableAllJobs : BOOLEAN, jobEnabled : BOOLEAN,
     noJobStart : BOOLEAN, preAudit : BOOLEAN]

DefaultConfig ==
    [forceRun |-> FALSE, disableAllJobs |-> FALSE, jobEnabled |-> TRUE,
     noJobStart |-> FALSE, preAudit |-> FALSE]

Min(a, b) == IF a < b THEN a ELSE b

\* the elements of a set of integers, ascending: the key order of a ledger,
\* whose keys are inserted in the order the ids were handed out
RECURSIVE Ascending(_)
Ascending(S) ==
    IF S = {} THEN << >>
    ELSE LET m == CHOOSE x \in S : \A y \in S : x <= y
         IN  <<m>> \o Ascending(S \ {m})

Range(s) == {s[i] : i \in 1 .. Len(s)}

\* Math.round(x / d) for d > 0: halves round up
MathRound(x, d) == (2 * x + d) \div (2 * d)

\* (new Date()).getTime()
Millis(tick) == tick * TickMillis

\* the orders in which n parallel calls can complete
Perms(n) ==
    {p \in [1 .. n -> 1 .. n] : \A i, j \in 1 .. n : p[i] = p[j] => i = j}

(***************************************************************************)
(* The environment's choices.  A remote call, a caller-supplied function   *)
(* or a hook may fail; under LiveSpec only while the budget lasts.         *)
(***************************************************************************)
Obstacle == budget # 0

Outcomes(S) == IF Obstacle THEN S ELSE {"ok"}

Spend(hit) == budget' = IF hit /\ budget > 0 THEN budget - 1 ELSE budget

(***************************************************************************)
(* The job service.                                                        *)
(***************************************************************************)
\* common.getJob: the job's status as the service holds it
GetJob(id) == [id |-> id, state |-> jobs[id].state]

\* a listJobs that asks for the jobs in state 'running' only
ListJobsRunningOnly == {id \in JobIds : jobs[id].state = RUNNING_STATE}

\* the jobs listJobs({name: opts.jobName}) streams
ListJobs == {id \in JobIds : jobs[id].state # "none"}

FreeIds == {id \in JobIds : jobs[id].state = "none"}

\* the id createJob hands out next
NextId == CHOOSE id \in FreeIds : \A free \in FreeIds : id <= free

\* the live jobs of that name: state not 'done'
LiveJobs == {id \in ListJobs : jobs[id].state # "done"}

(***************************************************************************)
(* run: stopIfDisabled, the error classes and the end of the pipeline.     *)
(***************************************************************************)
\* a stopIfDisabled that forgets the per-job flag
DisabledGlobalOnly(c) ==
    IF c.forceRun THEN FALSE
    ELSE IF c.disableAllJobs = TRUE THEN TRUE
    ELSE FALSE

\* stopIfDisabled: does it end the run with JobDisabled?
Disabled(c) ==
    IF c.forceRun THEN FALSE
    ELSE IF c.disableAllJobs = TRUE THEN TRUE
    ELSE IF c.jobEnabled = FALSE THEN TRUE
    ELSE FALSE

\* the errors created with shouldNotFatal = true
ShouldNotFatal(e) == e \in {"NoInputObjects", "AlreadyRunning"}

\* err && (err.shouldNotFatal === undefined)
Fatal(e) == e # "none" /\ ~ShouldNotFatal(e)

\* self.audit.cronFailed after the pipeline ended with e
CronFailed(e, before) == IF Fatal(e) THEN before ELSE 0

\* a writeAuditRecord that does not look at opts.noJobStart
WriteAuditRecordAlways(c) == <<"audit">>

\* writeAuditRecord: the per-invocation record, unless opts.noJobStart
WriteAuditRecord(c) == IF ~c.noJobStart THEN <<"audit">> ELSE << >>

\* a run that lets the error of recordJobs take the place of the stage's
CallbackErrorOfPut(e, e2) == IF e2 # "none" THEN e2 ELSE e

\* a run that hides every error of a stage from its caller
CallbackErrorHidden(e, e2) == "none"

\* what run hands to cb after recordJobs called back with err2
CallbackError(e, e2) == e

\* a callback that treats the non-fatal stops as it treats JobDisabled: the
\* record and the caller's callback, without recordJobs
PipelineDoneStopsUnrecorded(e, a) ==
    /\ err' = e
    /\ audit' = [a EXCEPT !.cronFailed = CronFailed(e, a.cronFailed)]
    /\ trace' = IF ShouldNotFatal(e) THEN WriteAuditRecord(cfg) \o <<"cb">>
                ELSE <<"put">>
    /\ pc' = IF ShouldNotFatal(e) THEN "done" ELSE "recordJobs"
    /\ UNCHANGED stages

\* the pipeline's callback, for an error other than JobDisabled, up to the
\* call of recordJobs; a is self.audit as the last stage left it
PipelineDone(e, a) ==
    /\ err' = e
    /\ audit' = [a EXCEPT !.cronFailed = CronFailed(e, a.cronFailed)]
    /\ trace' = <<"put">>
    /\ pc' = "recordJobs"
    /\ UNCHANGED stages

\* the stage of the pipeline that a callback of the model belongs to
StageOf(at) ==
    CASE at = "stopIfDisabled" -> "stopIfDisabled"
      [] at \in {"getObject", "getJobs", "auditJobs"} -> "auditPreviousJobs"
      [] at \in {"listJobs", "cancelJob"} -> "checkRunningJobs"
      [] at = "mkdir" -> "setupDirectories"
      [] at = "asset" -> "setupAssetObject"
      [] at = "getJobObjects" -> "invokeGetJobObjects"
      [] at = "getJobDefinition" -> "invokeGetJobDefinition"
      [] at \in {"createJob", "addJobKey"} -> "createMarlinJob"

\* the 'funcs' of the pipeline
StageOrder ==
    <<"stopIfDisabled", "auditPreviousJobs", "checkRunningJobs",
      "setupDirectories", "setupAssetObject", "invokeGetJobObjects",
      "invokeGetJobDefinition", "createMarlinJob">>

\* a stage called back without an error, or went on to its next call: the
\* pipeline goes on, and starts the next stage when the stage is over
Continue(next) ==
    /\ pc' = next
    /\ stages' = IF StageOf(next) = stages[Len(stages)] THEN stages
                 ELSE Append(stages, StageOf(next))
    /\ UNCHANGED <<err, audit, trace>>

(***************************************************************************)
(* auditPreviousJobs: the partition, the classification, mark and delete.  *)
(***************************************************************************)
\* secondsSinceDone of an entry at clock tick t
SecondsSinceDone(entry, t) == MathRound(Millis(t) - entry.timeCreated, 1000)

JobsToAudit(pJobs) ==
    Ascending({id \in DOMAIN pJobs : ~pJobs[id].audited})

JobsToDelete(pJobs, t) ==
    Ascending({id \in DOMAIN pJobs :
                  SecondsSinceDone(pJobs[id], t) > MAX_SECONDS_IN_AUDIT_OBJECT})

\* auditJob: the status of the operation on a fetched job; hookFails says
\* whether opts.preAudit, if called, calls back with an error
AuditJob(job, c, hookFails) ==
    IF job.state = RUNNING_STATE \/ job.state = QUEUED_STATE THEN "fail"
    ELSE IF c.preAudit /\ hookFails THEN "fail"
    ELSE "ok"

\* self.log.info(audit, 'audit') in auditJob: how many records each job id
\* got from the classification of the fetched jobs
Records(fetched, status) ==
    [id \in JobIds |->
        Cardinality({i \in 1 .. Len(fetched) :
                        fetched[i].id = id /\ status[i] = "ok"})]

\* a first loop that writes every entry's flag from this run's operations
MarkAuditedFromStatus(pJobs, toAudit, status) ==
    [id \in DOMAIN pJobs |->
        [pJobs[id] EXCEPT !.audited =
            \E i \in 1 .. Len(toAudit) : toAudit[i] = id /\ status[i] = "ok"]]

\* the first loop of the classification's callback: op i marks entry i
MarkAudited(pJobs, toAudit, status) ==
    [id \in DOMAIN pJobs |->
        IF \E i \in 1 .. Len(toAudit) : toAudit[i] = id /\ status[i] = "ok"
        THEN [pJobs[id] EXCEPT !.audited = TRUE]
        ELSE pJobs[id]]

\* a second loop that deletes every entry past the retention
DeleteExpiredAll(pJobs, toDelete) ==
    [id \in {k \in DOMAIN pJobs : k \notin Range(toDelete)} |-> pJobs[id]]

\* the second loop: entries past the retention go if they are audited
DeleteExpired(pJobs, toDelete) ==
    [id \in {k \in DOMAIN pJobs : ~(k \in Range(toDelete) /\ pJobs[k].audited)}
        |-> pJobs[id]]

\* auditPreviousJobs on a ledger that was read, at clock tick t, when every
\* fetch succeeds: order lists the job ids as their fetches complete, and
\* class gives what auditJob makes of each job
Reconcile(pJobs, t, order, class) ==
    LET toAudit == JobsToAudit(pJobs)
        toDelete == JobsToDelete(pJobs, t)
        InToAudit(id) == id \in Range(toAudit)
        successes == SelectSeq(order, InToAudit)
        status == [i \in 1 .. Len(successes) |-> class[successes[i]]]
    IN  IF Len(toAudit) = 0 THEN pJobs
        ELSE DeleteExpired(MarkAudited(pJobs, toAudit, status), toDelete)

\* createMarlinJob: the record of a job created at clock tick t
NewEntry(t) == [timeCreated |-> Millis(t), audited |-> FALSE]

\* a createMarlinJob that leaves the record of the new job out
AddEntryDropped(pJobs, id, entry) == pJobs

AddEntry(pJobs, id, entry) ==
    [k \in DOMAIN pJobs \cup {id} |-> IF k = id THEN entry ELSE pJobs[k]]

(***************************************************************************)
(* findRunningJobs and checkRunningJobs.                                   *)
(***************************************************************************)
\* a checkResults that takes only the jobs in state 'running' as running
RunningJobsStateRunning(listed) ==
    {id \in listed : jobs[id].state = RUNNING_STATE}

\* checkResults: the fetched jobs whose state is not 'done'
RunningJobs(listed) == {id \in listed : jobs[id].state # "done"}

\* a checkResults that hands on the first running job however many there are
CheckResultsTakesFirst(found) == IF found = {} THEN "none" ELSE "one"

\* checkResults: no running job, the one running job, or the error
CheckResults(found) ==
    IF Cardinality(found) = 0 THEN "none"
    ELSE IF Cardinality(found) > 1 THEN "many"
    ELSE "one"

\* a checkRunningJobs that cancels the running job whatever its input
CancelItAlways(job) == TRUE

\* a checkRunningJobs that cancels the job whose input has ended
CancelItIfSealed(job) == job.inputDone

\* checkRunningJobs: is the one running job cancelled (its input is open)?
CancelIt(job) == ~job.inputDone

(***************************************************************************)
(* An invocation's own state: what run, its closures and its opts hold.    *)
(***************************************************************************)
\* the state of the invocation that is taking its steps
Locals ==
    [pc |-> pc, cfg |-> cfg, previousJobs |-> previousJobs,
     jobsToAudit |-> jobsToAudit, jobsToDelete |-> jobsToDelete,
     jobObjects |-> jobObjects, runningJob |-> runningJob, jobId |-> jobId,
     err |-> err, audit |-> audit, trace |-> trace, err2 |-> err2,
     cbErr |-> cbErr, calls |-> calls, startStore |-> startStore,
     soleCreator |-> soleCreator, operations |-> operations,
     logged |-> logged, runningJobs |-> runningJobs,
     reconciled |-> reconciled, stages |-> stages]

\* the state of a JobManager whose run is not being called
IdleInvocation ==
    [pc |-> "idle", cfg |-> DefaultConfig, previousJobs |-> EmptyLedger,
     jobsToAudit |-> << >>, jobsToDelete |-> << >>, jobObjects |-> << >>,
     runningJob |-> 0, jobId |-> 0, err |-> "none",
     audit |-> [startedJob |-> 0, cronFailed |-> 1], trace |-> << >>,
     err2 |-> "none", cbErr |-> "none",
     calls |-> [createJob |-> 0, cancelJob |-> 0], startStore |-> Missing,
     soleCreator |-> TRUE, operations |-> << >>,
     logged |-> [id \in JobIds |-> 0], runningJobs |-> {},
     reconciled |-> EmptyLedger, stages |-> << >>]

(***************************************************************************)
(* Initial state: a constructed JobManager, no job yet, and a ledger       *)
(* object that does not exist or that something else left unparseable.     *)
(***************************************************************************)
InitCommon ==
    /\ pc = "idle"
    /\ cfg = DefaultConfig
    /\ store \in {Missing, Corrupt}
    /\ previousJobs = EmptyLedger
    /\ jobs = [id \in JobIds |-> NoJob]
    /\ now = 0
    /\ jobsToAudit = << >>
    /\ jobsToDelete = << >>
    /\ jobObjects = << >>
    /\ runningJob = 0
    /\ jobId = 0
    /\ err = "none"
    /\ audit = [startedJob |-> 0, cronFailed |-> 1]
    /\ trace = << >>
    /\ err2 = "none"
    /\ cbErr = "none"
    /\ calls = [createJob |-> 0, cancelJob |-> 0]
    /\ auditLog = [id \in JobIds |-> 0]
    /\ startStore = store
    /\ wasAudited = {}
    /\ soleCreator = TRUE
    /\ operations = << >>
    /\ logged = [id \in JobIds |-> 0]
    /\ runningJobs = {}
    /\ reconciled = EmptyLedger
    /\ stages = << >>
    /\ other = IdleInvocation
    /\ switches = 0

Init == InitCommon /\ budget = -1

(***************************************************************************)
(* run(cb): one action per callback.                                       *)
(***************************************************************************)
\* run is called: self.audit is reset and the pipeline starts.  A run that
\* starts while the other manager's invocation is suspended takes a turn;
\* it is the same command started again, with the same options.
Run ==
    /\ pc = "idle"
    /\ other.pc # "idle" => switches < MaxSwitches
    /\ switches' = IF other.pc = "idle" THEN switches ELSE switches + 1
    /\ \E c \in Configs :
          /\ other.pc # "idle" => c = other.cfg
          /\ Disabled(c) => Obstacle
          /\ Spend(Disabled(c))
          /\ cfg' = c
    /\ pc' = "stopIfDisabled"
    /\ audit' = [startedJob |-> 0, cronFailed |-> 1]
    /\ startStore' = store
    /\ soleCreator' = (Cardinality(LiveJobs) <= 1)
    /\ UNCHANGED <<store, previousJobs, jobs, now, jobsToAudit,
                   jobsToDelete, jobObjects, runningJob, jobId, err, trace,
                   err2, cbErr, calls, auditLog, wasAudited, operations,
                   logged, runningJobs, reconciled, other>>
    /\ stages' = <<StageOf("stopIfDisabled")>>

\* stopIfDisabled, and the pipeline's callback for JobDisabled
StopIfDisabled ==
    /\ pc = "stopIfDisabled"
    /\ IF Disabled(cfg)
       THEN /\ err' = "JobDisabled"
            /\ trace' = WriteAuditRecord(cfg) \o <<"cb">>
            /\ cbErr' = "none"
            /\ pc' = "done"
            /\ UNCHANGED stages
       ELSE /\ Continue("getObject")
            /\ UNCHANGED cbErr
    /\ UNCHANGED <<cfg, store, previousJobs, jobs, now, jobsToAudit,
                   jobsToDelete, jobObjects, runningJob, jobId, audit,
                   err2, calls, auditLog, startStore, wasAudited,
                   soleCreator, budget, operations, logged, runningJobs,
                   reconciled, other, switches>>

\* auditPreviousJobs up to the fetches: gotObject
GotObject ==
    /\ pc = "getObject"
    /\ \E o \in Outcomes({"ok", "fail"}) :
          /\ Spend(o # "ok")
          /\ IF o = "fail"
             THEN /\ previousJobs' = EmptyLedger
                  /\ PipelineDone("GetObjectError", audit)
                  /\ UNCHANGED <<jobsToAudit, jobsToDelete>>
             ELSE IF store.kind = "missing"
             THEN /\ previousJobs' = EmptyLedger
                  /\ Continue("listJobs")
                  /\ UNCHANGED <<jobsToAudit, jobsToDelete>>
             ELSE IF store.kind = "corrupt"
             THEN /\ previousJobs' = EmptyLedger
                  /\ PipelineDone("ParseError", audit)
                  /\ UNCHANGED <<jobsToAudit, jobsToDelete>>
             ELSE /\ previousJobs' = store.jobs
                  /\ jobsToAudit' = JobsToAudit(store.jobs)
                  /\ jobsToDelete' = JobsToDelete(store.jobs, now)
                  /\ Continue(IF JobsToAudit(store.jobs) = << >>
                              THEN "listJobs" ELSE "getJobs")
    /\ reconciled' = IF pc' = "getJobs" THEN reconciled ELSE previousJobs'
    /\ UNCHANGED <<cfg, store, jobs, now, jobObjects, runningJob, jobId,
                   err2, cbErr, calls, auditLog, startStore, wasAudited,
                   soleCreator, operations, logged, runningJobs, other,
                   switches>>

\* a fetch callback that empties the working ledger when a fetch failed
GotJobsFailureWipes ==
    /\ pc = "getJobs"
    /\ \E o \in Outcomes({"ok", "fail"}), p \in Perms(Len(jobsToAudit)) :
          /\ Spend(o # "ok")
          /\ IF o = "fail"
             THEN /\ PipelineDone("GetJobError", audit)
                  /\ previousJobs' = EmptyLedger
                  /\ reconciled' = EmptyLedger
                  /\ UNCHANGED jobObjects
             ELSE /\ jobObjects' =
                        [i \in 1 .. Len(jobsToAudit) |-> GetJob(jobsToAudit[p[i]])]
                  /\ UNCHANGED <<previousJobs, reconciled>>
                  /\ pc' = "auditJobs"
                  /\ UNCHANGED <<err, audit, trace, stages>>
    /\ UNCHANGED <<cfg, store, jobs, now, jobsToAudit, jobsToDelete,
                   runningJob, jobId, err2, cbErr, calls, auditLog,
                   startStore, wasAudited, soleCreator, operations, logged,
                   runningJobs, other, switches>>

\* the callback of the parallel status fetches: they fail as a whole, or
\* results.successes holds the jobs in the order the fetches completed
GotJobs ==
    /\ pc = "getJobs"
    /\ \E o \in Outcomes({"ok", "fail"}), p \in Perms(Len(jobsToAudit)) :
          /\ Spend(o # "ok")
          /\ IF o = "fail"
             THEN /\ PipelineDone("GetJobError", audit)
                  /\ reconciled' = previousJobs
                  /\ UNCHANGED jobObjects
             ELSE /\ jobObjects' =
                        [i \in 1 .. Len(jobsToAudit) |-> GetJob(jobsToAudit[p[i]])]
                  /\ Continue("auditJobs")
                  /\ UNCHANGED reconciled
    /\ UNCHANGED <<cfg, store, previousJobs, jobs, now, jobsToAudit,
                   jobsToDelete, runningJob, jobId, err2, cbErr, calls,
                   auditLog, startStore, wasAudited, soleCreator,
                   operations, logged, runningJobs, other, switches>>

\* the callback of the parallel classifications: mark, delete, go on
AuditedJobs ==
    /\ pc = "auditJobs"
    /\ \E hookFails \in SUBSET {i \in 1 .. Len(jobObjects) :
                                  Obstacle /\ AuditJob(jobObjects[i], cfg, FALSE) = "ok"
                                  /\ cfg.preAudit} :
          LET status == [i \in 1 .. Len(jobObjects) |->
                            AuditJob(jobObjects[i], cfg, i \in hookFails)]
              records == Records(jobObjects, status)
          IN  /\ Spend(hookFails # {})
              /\ operations' = status
              /\ logged' = records
              /\ auditLog' = [id \in JobIds |->
                                 Min(LogCap, auditLog[id] + records[id])]
              /\ previousJobs' =
                    DeleteExpired(MarkAudited(previousJobs, jobsToAudit, status),
                                  jobsToDelete)
    /\ reconciled' = previousJobs'
    /\ Continue("listJobs")
    /\ UNCHANGED <<cfg, store, jobs, now, jobsToAudit, jobsToDelete,
                   jobObjects, runningJob, jobId, err2, cbErr, calls,
                   startStore, wasAudited, soleCreator, runningJobs, other,
                   switches>>

\* findRunningJobs and checkRunningJobs up to the call of cancelJob
FoundRunningJobs ==
    /\ pc = "listJobs"
    /\ \E o \in Outcomes({"ok", "fail"}) :
          /\ Spend(o # "ok")
          /\ IF o = "fail"
             THEN /\ PipelineDone("ListJobsError", audit)
                  /\ UNCHANGED <<runningJob, calls, runningJobs>>
             ELSE /\ runningJobs' = RunningJobs(ListJobs)
                  /\ IF CheckResults(runningJobs') = "none"
                     THEN /\ Continue("mkdir")
                          /\ UNCHANGED <<runningJob, calls>>
                     ELSE IF CheckResults(runningJobs') = "many"
                     THEN /\ PipelineDone("NameCollision", audit)
                          /\ UNCHANGED <<runningJob, calls>>
                     ELSE LET job == CHOOSE id \in runningJobs' : TRUE
                          IN  IF CancelIt(jobs[job])
                              THEN /\ runningJob' = job
                                   /\ calls' = [calls EXCEPT !.cancelJob = 1]
                                   /\ Continue("cancelJob")
                              ELSE /\ PipelineDone("AlreadyRunning", audit)
                                   /\ UNCHANGED <<runningJob, calls>>
    /\ UNCHANGED <<cfg, store, previousJobs, jobs, now, jobsToAudit,
                   jobsToDelete, jobObjects, jobId, err2, cbErr, auditLog,
                   startStore, wasAudited, soleCreator, operations, logged,
                   reconciled, other, switches>>

\* the callback of cancelJob: a cancelled job is done
CancelledJob ==
    /\ pc = "cancelJob"
    /\ \E o \in Outcomes({"ok", "fail"}) :
          /\ Spend(o # "ok")
          /\ IF o = "fail"
             THEN /\ PipelineDone("CancelError", audit)
                  /\ UNCHANGED jobs
             ELSE /\ jobs' = [jobs EXCEPT ![runningJob].state = "done"]
                  /\ Continue("mkdir")
    /\ UNCHANGED <<cfg, store, previousJobs, now, jobsToAudit, jobsToDelete,
                   jobObjects, runningJob, jobId, err2, cbErr, calls,
                   auditLog, startStore, wasAudited, soleCreator,
                   operations, logged, runningJobs, reconciled, other,
                   switches>>

\* a stage that only calls out and passes the outcome on
PassThrough(at, next, failure) ==
    /\ pc = at
    /\ \E o \in Outcomes({"ok", "fail"}) :
          /\ Spend(o # "ok")
          /\ IF o = "fail"
             THEN PipelineDone(failure, audit)
             ELSE Continue(next)
    /\ UNCHANGED <<cfg, store, previousJobs, jobs, now, jobsToAudit,
                   jobsToDelete, jobObjects, runningJob, jobId, err2, cbErr,
                   calls, auditLog, startStore, wasAudited, soleCreator,
                   operations, logged, runningJobs, reconciled, other,
                   switches>>

\* a pipeline whose list of stages lacks setupAssetObject
SetupDirectoriesSkipsAsset == PassThrough("mkdir", "getJobObjects", "MkdirError")

\* setupDirectories: the mkdirs, one after another
SetupDirectories == PassThrough("mkdir", "asset", "MkdirError")

\* setupAssetObject: nothing, or stat and put of the asset file
SetupAssetObject == PassThrough("asset", "getJobObjects", "AssetError")

\* invokeGetJobObjects: the callback of opts.getJobObjects
InvokeGetJobObjects ==
    /\ pc = "getJobObjects"
    /\ \E o \in Outcomes({"ok", "fail"}) \cup {"empty"} :
          /\ o = "ok" => FreeIds # {}
          /\ Spend(o = "fail")
          /\ IF o = "fail" THEN PipelineDone("GetJobObjectsError", audit)
             ELSE IF o = "empty" THEN PipelineDone("NoInputObjects", audit)
             ELSE Continue("getJobDefinition")
    /\ UNCHANGED <<cfg, store, previousJobs, jobs, now, jobsToAudit,
                   jobsToDelete, jobObjects, runningJob, jobId, err2, cbErr,
                   calls, auditLog, startStore, wasAudited, soleCreator,
                   operations, logged, runningJobs, reconciled, other,
                   switches>>

\* invokeGetJobDefinition: the callback of opts.getJobDefinition
InvokeGetJobDefinition ==
    /\ pc = "getJobDefinition"
    /\ \E o \in Outcomes({"ok", "fail", "mismatch"}) :
          /\ Spend(o # "ok")
          /\ IF o = "fail" THEN PipelineDone("GetJobDefinitionError", audit)
             ELSE IF o = "mismatch" THEN PipelineDone("NameMismatch", audit)
             ELSE Continue("createJob")
    /\ UNCHANGED <<cfg, store, previousJobs, jobs, now, jobsToAudit,
                   jobsToDelete, jobObjects, runningJob, jobId, err2, cbErr,
                   calls, auditLog, startStore, wasAudited, soleCreator,
                   operations, logged, runningJobs, reconciled, other,
                   switches>>

\* createMarlinJob up to the call of addJobKey: the callback of createJob
CreateMarlinJob ==
    /\ pc = "createJob"
    /\ IF cfg.noJobStart
       THEN /\ PipelineDone("none", audit)
            /\ UNCHANGED <<jobs, previousJobs, jobId, calls, budget>>
       ELSE /\ calls' = [calls EXCEPT !.createJob = 1]
            /\ \E o \in IF FreeIds = {} THEN {"fail"} ELSE Outcomes({"ok", "fail"}) :
                  /\ Spend(o # "ok")
                  /\ IF o = "fail"
                     THEN /\ PipelineDone("CreateJobError", audit)
                          /\ UNCHANGED <<jobs, previousJobs, jobId>>
                     ELSE /\ jobId' = NextId
                          /\ jobs' = [jobs EXCEPT ![NextId] =
                                        [state |-> QUEUED_STATE,
                                         inputDone |-> FALSE, mine |-> TRUE]]
                          /\ previousJobs' =
                                AddEntry(previousJobs, NextId, NewEntry(now))
                          /\ Continue("addJobKey")
    /\ UNCHANGED <<cfg, store, now, jobsToAudit, jobsToDelete, jobObjects,
                   runningJob, err2, cbErr, auditLog, startStore,
                   wasAudited, soleCreator, operations, logged, runningJobs,
                   reconciled, other, switches>>

\* the callback of addJobKey(jobId, objects, {end: true})
AddedJobKey ==
    /\ pc = "addJobKey"
    /\ \E o \in Outcomes({"ok", "fail"}) :
          /\ Spend(o # "ok")
          /\ IF o = "fail"
             THEN /\ PipelineDone("AddJobKeyError", audit)
                  /\ UNCHANGED jobs
             ELSE /\ jobs' = [jobs EXCEPT ![jobId].inputDone = TRUE]
                  /\ PipelineDone("none", [audit EXCEPT !.startedJob = 1])
    /\ UNCHANGED <<cfg, store, previousJobs, now, jobsToAudit, jobsToDelete,
                   jobObjects, runningJob, jobId, err2, cbErr, calls,
                   auditLog, startStore, wasAudited, soleCreator,
                   operations, logged, runningJobs, reconciled, other,
                   switches>>

\* the callback of recordJobs's put: the record, then the caller's callback
RecordedJobs ==
    /\ pc = "recordJobs"
    /\ \E o \in Outcomes({"ok", "fail"}) :
          /\ Spend(o # "ok")
          /\ IF o = "fail"
             THEN UNCHANGED <<store, wasAudited>>
             ELSE /\ store' = Json(previousJobs)
                  /\ wasAudited' = wasAudited \cup
                        {id \in DOMAIN previousJobs : previousJobs[id].audited}
          /\ err2' = (IF o = "fail" THEN "PutError" ELSE "none")
    /\ cbErr' = CallbackError(err, err2')
    /\ trace' = trace \o WriteAuditRecord(cfg) \o <<"cb">>
    /\ pc' = "done"
    /\ UNCHANGED <<cfg, previousJobs, jobs, now, jobsToAudit, jobsToDelete,
                   jobObjects, runningJob, jobId, err, audit, calls,
                   auditLog, startStore, soleCreator, operations, logged,
                   runningJobs, reconciled, stages, other, switches>>

\* the caller's callback returns: the invocation is over, and what it left
\* in self.audit, in its closures and in opts.previousJobs is not read again
\* (auditPreviousJobs assigns opts.previousJobs before anything reads it)
Return ==
    /\ pc = "done"
    /\ pc' = "idle"
    /\ cfg' = DefaultConfig
    /\ audit' = [startedJob |-> 0, cronFailed |-> 1]
    /\ err' = "none"
    /\ err2' = "none"
    /\ cbErr' = "none"
    /\ trace' = << >>
    /\ calls' = [createJob |-> 0, cancelJob |-> 0]
    /\ jobsToAudit' = << >>
    /\ jobsToDelete' = << >>
    /\ jobObjects' = << >>
    /\ runningJob' = 0
    /\ jobId' = 0
    /\ previousJobs' = EmptyLedger
    /\ startStore' = store
    /\ soleCreator' = (Cardinality(LiveJobs) <= 1)
    /\ UNCHANGED <<store, jobs, now, auditLog, wasAudited, budget, other, switches>>
    /\ stages' = << >>
    /\ operations' = << >>
    /\ logged' = [id \in JobIds |-> 0]
    /\ runningJobs' = {}
    /\ reconciled' = EmptyLedger

(***************************************************************************)
(* The environment.  It acts while an invocation runs and between          *)
(* invocations; the clock's tick of four days and a foreign job fall       *)
(* between invocations.                                                    *)
(***************************************************************************)
\* the job service runs a job: queued, running, and done once its input
\* has ended
JobAdvance(id) ==
    /\ \/ /\ jobs[id].state = QUEUED_STATE
          /\ jobs' = [jobs EXCEPT ![id].state = RUNNING_STATE]
       \/ /\ jobs[id].state = RUNNING_STATE
          /\ jobs[id].inputDone
          /\ jobs' = [jobs EXCEPT ![id].state = "done"]
    /\ UNCHANGED <<pc, cfg, store, previousJobs, now, jobsToAudit,
                   jobsToDelete, jobObjects, runningJob, jobId, err, audit,
                   trace, err2, cbErr, calls, auditLog, startStore,
                   wasAudited, soleCreator, budget, operations, logged,
                   runningJobs, reconciled, stages, other, switches>>

\* four days pass
Tick ==
    /\ pc = "idle"
    /\ now < MaxTicks
    /\ now' = now + 1
    /\ UNCHANGED <<pc, cfg, store, previousJobs, jobs, jobsToAudit,
                   jobsToDelete, jobObjects, runningJob, jobId, err, audit,
                   trace, err2, cbErr, calls, auditLog, startStore,
                   wasAudited, soleCreator, budget, operations, logged,
                   runningJobs, reconciled, stages, other, switches>>

\* somebody else creates a job with the same name
ForeignJob ==
    /\ pc = "idle"
    /\ FreeIds # {}
    /\ Obstacle
    /\ Spend(TRUE)
    /\ \E sealed \in BOOLEAN :
          jobs' = [jobs EXCEPT ![NextId] =
                     [state |-> QUEUED_STATE, inputDone |-> sealed, mine |-> FALSE]]
    /\ soleCreator' = FALSE
    /\ UNCHANGED <<pc, cfg, store, previousJobs, now, jobsToAudit,
                   jobsToDelete, jobObjects, runningJob, jobId, err, audit,
                   trace, err2, cbErr, calls, auditLog, startStore,
                   wasAudited, operations, logged, runningJobs, reconciled,
                   stages, other, switches>>

\* a second JobManager for the same job name, in another process: its
\* callbacks come between the callbacks of the first.  The invocation that
\* was taking its steps is suspended and the other one goes on.
Switch ==
    /\ switches < MaxSwitches
    /\ pc # "idle" \/ other.pc # "idle"
    /\ switches' = switches + 1
    /\ other' = IF pc = "idle" THEN IdleInvocation ELSE Locals
    /\ pc' = other.pc
    /\ cfg' = other.cfg
    /\ previousJobs' = other.previousJobs
    /\ jobsToAudit' = other.jobsToAudit
    /\ jobsToDelete' = other.jobsToDelete
    /\ jobObjects' = other.jobObjects
    /\ runningJob' = other.runningJob
    /\ jobId' = other.jobId
    /\ err' = other.err
    /\ audit' = other.audit
    /\ trace' = other.trace
    /\ err2' = other.err2
    /\ cbErr' = other.cbErr
    /\ calls' = other.calls
    /\ startStore' = IF other.pc = "idle" THEN store ELSE other.startStore
    /\ soleCreator' = IF other.pc = "idle" THEN Cardinality(LiveJobs) <= 1
                      ELSE other.soleCreator
    /\ operations' = other.operations
    /\ logged' = other.logged
    /\ runningJobs' = other.runningJobs
    /\ reconciled' = other.reconciled
    /\ stages' = other.stages
    /\ UNCHANGED <<store, jobs, now, auditLog, wasAudited, budget>>

RunStep ==
    \/ Run
    \/ StopIfDisabled
    \/ GotObject
    \/ GotJobs
    \/ AuditedJobs
    \/ FoundRunningJobs
    \/ CancelledJob
    \/ SetupDirectories
    \/ SetupAssetObject
    \/ InvokeGetJobObjects
    \/ InvokeGetJobDefinition
    \/ CreateMarlinJob
    \/ AddedJobKey
    \/ RecordedJobs
    \/ Return

Next ==
    \/ RunStep
    \/ \E id \in JobIds : JobAdvance(id)
    \/ Tick
    \/ ForeignJob

Spec == Init /\ [][Next]_vars

\* two JobManagers for the same job name whose invocations may overlap
\* within one period of the clock, and nothing else in the way: no call
\* fails and nobody else creates a job
OverlapInit == InitCommon /\ budget = 0

OverlapNext ==
    \/ RunStep
    \/ \E id \in JobIds : JobAdvance(id)
    \/ Switch

OverlapSpec == OverlapInit /\ [][OverlapNext]_vars

\* invocations recur, the job service runs its jobs, and the environment
\* puts at most MaxObstacles obstacles in the way
LiveInit == InitCommon /\ budget = MaxObstacles

LiveSpec ==
    /\ LiveInit
    /\ [][Next]_vars
    /\ WF_vars(RunStep)
    /\ \A id \in JobIds : WF_vars(JobAdvance(id))

(***************************************************************************)
(* The properties.                                                         *)
(***************************************************************************)
\* the current invocation is one the disable check stops
DisabledInvocation ==
    /\ pc # "idle"
    /\ ~cfg.forceRun
    /\ (cfg.disableAllJobs \/ ~cfg.jobEnabled)

Unaudited(ledger) == {id \in DOMAIN ledger : ~ledger[id].audited}

\* C1: an entry that is in the stored ledger with audited = false when an
\* invocation starts is still in the stored ledger when it returns,
\* whatever the remote calls did
C1_UnauditedEntriesKept ==
    pc = "done" => Unaudited(startStore.jobs) \subseteq DOMAIN store.jobs

\* C2: when at most one live job with the name exists as an invocation
\* starts and nobody else creates one, at most one exists when it returns
C2_AtMostOneLiveJob ==
    (pc = "done" /\ soleCreator) => Cardinality(LiveJobs) <= 1

\* C2's case: the running job was cancelled, a new one was created, and
\* addJobKey failed
C2_Witness ==
    /\ pc = "done"
    /\ soleCreator
    /\ calls.cancelJob = 1
    /\ jobId # 0
    /\ err = "AddJobKeyError"

\* C3: a job id that was stored with audited = true is never stored with
\* audited = false afterwards
C3_AuditedNeverReverts ==
    \A id \in wasAudited : id \in DOMAIN store.jobs => store.jobs[id].audited

\* C3's case: an invocation that found an audited entry and an un-audited
\* one has written the ledger, and the audited one is still in it
C3_Witness ==
    /\ pc = "done"
    /\ err2 = "none"
    /\ jobsToAudit # << >>
    /\ \E id \in wasAudited :
          /\ id \in DOMAIN startStore.jobs
          /\ startStore.jobs[id].audited
          /\ id \in DOMAIN store.jobs

\* C4: an invocation that is disabled and not forced never calls createJob
\* and adds no ledger entry, in the working ledger or in the store
C4_DisabledCreatesNothing ==
    DisabledInvocation =>
        /\ calls.createJob = 0
        /\ jobId = 0
        /\ previousJobs = EmptyLedger
        /\ store = startStore

\* C4's case: a disabled invocation has returned, with jobs in the ledger
C4_Witness ==
    /\ DisabledInvocation
    /\ pc = "done"
    /\ cfg.jobEnabled = FALSE
    /\ ~cfg.disableAllJobs
    /\ store.jobs # EmptyLedger

\* C5 as stated: every invocation, the disabled one included, ends with
\* the ledger write, then one audit record, then the callback
C5_AlwaysPutAuditCallback ==
    pc = "done" => trace = <<"put", "audit", "cb">>

\* C5 amended: an invocation the disable check does not stop ends with the
\* call of the ledger write, then the audit record (none with
\* opts.noJobStart), then the callback; a disabled one writes no ledger
C5_PutAuditCallbackUnlessDisabled ==
    pc = "done" =>
        trace = (IF err = "JobDisabled" THEN << >> ELSE <<"put">>)
                \o (IF cfg.noJobStart THEN << >> ELSE <<"audit">>)
                \o <<"cb">>

\* C5's case: a run that failed fatally in a stage has returned
C5_Witness ==
    /\ pc = "done"
    /\ err = "NameMismatch"
    /\ ~cfg.noJobStart
    /\ trace = <<"put", "audit", "cb">>

\* a stage ended the pipeline with an error that is logged as fatal
FatalStageError == err # "JobDisabled" /\ Fatal(err)

\* C6: the caller gets the fatal error of the stage, also when the ledger
\* write failed, and never the error of the ledger write
C6_OriginalErrorReturned ==
    pc = "done" =>
        /\ FatalStageError => cbErr = err
        /\ err = "none" => cbErr = "none"
        /\ cbErr # "PutError"

\* C6's case: a stage failed fatally and the ledger write failed as well
C6_Witness ==
    /\ pc = "done"
    /\ err = "CreateJobError"
    /\ err2 = "PutError"

\* C7 as stated: a run that ends with a non-fatal kind calls back without
\* an error
C7_NonFatalNotReturned ==
    (pc = "done" /\ (err = "JobDisabled" \/ ShouldNotFatal(err)))
        => cbErr = "none"

\* C7 amended: JobDisabled calls back without an error; NoInputObjects and
\* AlreadyRunning are not counted as failures of the run (cronFailed = 0),
\* and their error is what the caller's callback gets
C7_NonFatalReturnedUnlessDisabled ==
    pc = "done" =>
        /\ err = "JobDisabled" => cbErr = "none"
        /\ ShouldNotFatal(err) => (cbErr = err /\ audit.cronFailed = 0)

\* C7's case: a run ended because the job is already running
C7_Witness ==
    /\ pc = "done"
    /\ err = "AlreadyRunning"
    /\ cbErr = "AlreadyRunning"

\* C8: no job id gets more than one per-job audit record
C8_AuditedAtMostOnce == \A id \in JobIds : auditLog[id] <= 1

\* C9: every job createJob returned an id for gets a per-job audit record
C9_SubmittedEventuallyAudited ==
    \A id \in JobIds : jobs[id].mine ~> (auditLog[id] > 0)

\* C10: when the stored document cannot be parsed the run fails fatally
\* and the stored document is left as it was
C10_UnparseableLedgerKept ==
    (pc = "done" /\ startStore.kind = "corrupt" /\ err # "JobDisabled"
        /\ err # "GetObjectError")
        => (Fatal(err) /\ store = startStore)

(***************************************************************************)
(* The reconciliation of one invocation, as the properties read it.        *)
(***************************************************************************)
\* auditPreviousJobs has called back in the current invocation
AuditStageOver ==
    \/ pc \in {"listJobs", "cancelJob", "mkdir", "asset", "getJobObjects",
                "getJobDefinition", "createJob", "addJobKey"}
    \/ (pc \in {"recordJobs", "done"} /\ err # "JobDisabled")

\* the classifications have run in the current invocation
ClassificationRan == operations # << >>

\* the place of job id among the fetched jobs
FetchedAt(id) == CHOOSE j \in 1 .. Len(jobObjects) : jobObjects[j].id = id

\* the status that was fetched for job id, and what auditJob made of it
Fetched(id) == jobObjects[FetchedAt(id)]

Classified(id) == operations[FetchedAt(id)]

StillRunning(job) == job.state = RUNNING_STATE \/ job.state = QUEUED_STATE

\* the entry of job id was past the retention when the ledger was read
Expired(id) == id \in Range(jobsToDelete)

\* the entry of job id was set to audited = true in this reconciliation
Marked(id) ==
    \E i \in 1 .. Len(operations) : jobsToAudit[i] = id /\ operations[i] = "ok"

\* C11: after a reconciliation whose fetches all succeeded, an un-audited
\* entry within the retention whose job was fetched as finished and whose
\* hook succeeded is audited and got exactly one per-job record; an entry
\* whose job was fetched running or queued got none and stays un-audited
C11_FinishedJobsAudited ==
    ClassificationRan =>
        \A id \in Range(jobsToAudit) :
            ~Expired(id) =>
                /\ (~StillRunning(Fetched(id)) /\ Classified(id) = "ok")
                      => (previousJobs[id].audited /\ logged[id] = 1)
                /\ StillRunning(Fetched(id))
                      => (~previousJobs[id].audited /\ logged[id] = 0)

TheRunningJob == CHOOSE id \in runningJobs : TRUE

\* C13 as stated: one live job whose input is open is cancelled, and before
\* createJob; after a successful cancel and successful later stages a new
\* job is submitted and has a new un-audited entry; after a failed cancel
\* the run fails fatally without createJob
C13_CancelThenCreate ==
    /\ (Cardinality(runningJobs) = 1 /\ ~jobs[TheRunningJob].inputDone)
          => (calls.cancelJob = 1 /\ runningJob = TheRunningJob)
    /\ pc = "cancelJob" => calls.createJob = 0
    /\ (pc = "done" /\ runningJob # 0 /\ err = "none")
          => /\ calls.createJob = 1
             /\ jobId \in DOMAIN previousJobs
             /\ ~previousJobs[jobId].audited
             /\ jobs[jobId].mine
    /\ (pc = "done" /\ err = "CancelError")
          => (cbErr = err /\ audit.cronFailed = 1 /\ calls.createJob = 0)

\* C13 amended: the same, but with opts.noJobStart the successful run that
\* cancelled the job submits no job and adds no entry
C13_CancelThenCreateUnlessNoJobStart ==
    /\ (Cardinality(runningJobs) = 1 /\ ~jobs[TheRunningJob].inputDone)
          => (calls.cancelJob = 1 /\ runningJob = TheRunningJob)
    /\ pc = "cancelJob" => calls.createJob = 0
    /\ (pc = "done" /\ runningJob # 0 /\ err = "none" /\ ~cfg.noJobStart)
          => /\ calls.createJob = 1
             /\ jobId \in DOMAIN previousJobs
             /\ ~previousJobs[jobId].audited
             /\ jobs[jobId].mine
    /\ (pc = "done" /\ runningJob # 0 /\ err = "none" /\ cfg.noJobStart)
          => (calls.createJob = 0 /\ jobId = 0 /\ previousJobs = reconciled)
    /\ (pc = "done" /\ err = "CancelError")
          => (cbErr = err /\ audit.cronFailed = 1 /\ calls.createJob = 0)

\* C13's case: the live job was cancelled and the run submitted a new one
C13_Witness ==
    /\ pc = "done"
    /\ runningJob # 0
    /\ jobs[runningJob].state = "done"
    /\ err = "none"
    /\ ~cfg.noJobStart
    /\ jobId \in DOMAIN previousJobs

\* C14: when checkResults finds more than one job that is not done, the
\* run ends with that error, the caller gets it, cronFailed stays 1, and
\* neither cancelJob nor createJob is called
C14_NameCollisionFatal ==
    Cardinality(runningJobs) > 1 =>
        /\ pc \in {"recordJobs", "done"}
        /\ err = "NameCollision"
        /\ Fatal(err)
        /\ audit.cronFailed = 1
        /\ calls.cancelJob = 0
        /\ calls.createJob = 0
        /\ runningJob = 0
        /\ jobId = 0
        /\ pc = "done" => cbErr = err

\* C14's case: a run that found two live jobs has returned
C14_Witness ==
    /\ pc = "done"
    /\ Cardinality(runningJobs) = 2
    /\ cbErr = "NameCollision"

\* the run ended with an error that stops it before createJob
StoppedBeforeCreate == err \in {"NoInputObjects", "AlreadyRunning", "NameCollision"}

\* C15: a run that ends with NoInputObjects, AlreadyRunning or
\* NameCollision has not called createJob, and the ledger it writes is the
\* ledger auditPreviousJobs produced
C15_StoppedRunWritesReconciled ==
    (pc = "done" /\ StoppedBeforeCreate) =>
        /\ calls.createJob = 0
        /\ jobId = 0
        /\ previousJobs = reconciled
        /\ trace[1] = "put"
        /\ err2 = "none" => store = Json(reconciled)

\* C15's case: the reconciliation marked an entry, the run found no input
\* objects and the ledger was written
C15_Witness ==
    /\ pc = "done"
    /\ err = "NoInputObjects"
    /\ err2 = "none"
    /\ reconciled # startStore.jobs
    /\ store = Json(reconciled)

\* the job ids in the order their fetches completed, and what auditJob
\* made of each
FetchOrder == [i \in 1 .. Len(jobObjects) |-> jobObjects[i].id]

ClassOf == [id \in Range(FetchOrder) |-> Classified(id)]

\* C16: a second auditPreviousJobs on the ledger the first one produced,
\* with the same clock, the same job statuses, the fetches completing in
\* the same order and the same hook outcomes, yields that ledger again
C16_ReconcileIdempotent ==
    (pc = "listJobs" /\ ClassificationRan) =>
        Reconcile(reconciled, now, FetchOrder, ClassOf) = reconciled

\* C17: an entry is set to audited = true only if auditJob succeeded on the
\* status fetched for the entry's own job id
C17_MarkedOnlyIfOwnJobClassified ==
    ClassificationRan =>
        \A id \in Range(jobsToAudit) : Marked(id) => Classified(id) = "ok"

\* C18: when a status fetch fails the run ends fatally, no classification
\* runs, no per-job record is logged, and the ledger written is the ledger
\* that was read
C18_FetchFailureChangesNothing ==
    (pc \in {"recordJobs", "done"} /\ err = "GetJobError") =>
        /\ Fatal(err)
        /\ audit.cronFailed = 1
        /\ ~ClassificationRan
        /\ \A id \in JobIds : logged[id] = 0
        /\ previousJobs = startStore.jobs
        /\ pc = "done" =>
              /\ cbErr = err
              /\ store.jobs = startStore.jobs

\* C18's case: the fetch failed for a ledger with an un-audited entry next
\* to an audited one past the retention, and the ledger was written
C18_Witness ==
    /\ pc = "done"
    /\ err = "GetJobError"
    /\ err2 = "none"
    /\ jobsToAudit # << >>
    /\ \E id \in Range(jobsToDelete) : startStore.jobs[id].audited
    /\ store = startStore

\* C19: when the classification of some entries fails, the entries whose
\* own job was classified with success are audited all the same, and the
\* pipeline goes on to checkRunningJobs
C19_OthersStillMarked ==
    (ClassificationRan /\ \E i \in 1 .. Len(operations) : operations[i] = "fail")
        => /\ \A id \in Range(jobsToAudit) : Classified(id) = "ok" => Marked(id)
           /\ err \notin {"GetObjectError", "ParseError", "GetJobError"}

\* C20: after a reconciliation that called back without an error the
\* ledger has no entry that is audited and past the retention
C20_NoAuditedExpiredEntry ==
    pc = "listJobs" =>
        \A id \in DOMAIN previousJobs :
            ~(/\ previousJobs[id].audited
              /\ SecondsSinceDone(previousJobs[id], now)
                    > MAX_SECONDS_IN_AUDIT_OBJECT)

IsPrefix(s, t) == Len(s) <= Len(t) /\ \A i \in 1 .. Len(s) : s[i] = t[i]

\* C21: the stages an invocation has started are the first stages of the
\* fixed order, the callback that is due belongs to the stage started last,
\* no stage is under way once one has failed, and createJob is called only
\* when all eight stages have been started
C21_StagesInOrder ==
    /\ IsPrefix(stages, StageOrder)
    /\ pc \notin {"idle", "recordJobs", "done"} =>
          /\ err = "none"
          /\ stages # << >>
          /\ stages[Len(stages)] = StageOf(pc)
    /\ err # "none" => pc \in {"recordJobs", "done"}
    /\ calls.createJob = 1 => stages = StageOrder

\* C21's case: createJob has been called, after the seven stages before it
C21_Witness ==
    /\ pc = "addJobKey"
    /\ calls.createJob = 1
    /\ Len(stages) = 8
    /\ stages[8] = "createMarlinJob"

\* C22: the id createJob returned is in the working ledger with
\* audited = false and in the ledger the run writes, also when addJobKey
\* fails and the run ends fatally; startedJob = 1 only after addJobKey
\* succeeded
C22_CreatedJobRecorded ==
    /\ jobId # 0 =>
          (jobId \in DOMAIN previousJobs /\ ~previousJobs[jobId].audited)
    /\ (pc \in {"recordJobs", "done"} /\ jobId # 0) => trace[1] = "put"
    /\ (pc = "done" /\ jobId # 0 /\ err2 = "none") =>
          (jobId \in DOMAIN store.jobs /\ ~store.jobs[jobId].audited)
    /\ err = "AddJobKeyError" =>
          /\ Fatal(err)
          /\ audit.cronFailed = 1
          /\ audit.startedJob = 0
          /\ pc = "done" => cbErr = err
    /\ audit.startedJob = 1 =>
          (jobId # 0 /\ err = "none" /\ jobs[jobId].inputDone)

\* C22's case: createJob returned an id, addJobKey failed, and the ledger
\* the run wrote holds the id
C22_Witness ==
    /\ pc = "done"
    /\ err = "AddJobKeyError"
    /\ err2 = "none"
    /\ jobId \in DOMAIN store.jobs

\* C23: while the invocations of the two managers have not overlapped, at
\* most one job of the name is live; the state with two live jobs is
\* reached once they overlap (C23_Witness)
C23_OneLiveJobWithoutOverlap ==
    switches = 0 => Cardinality(LiveJobs) <= 1

\* C23's case: two overlapping invocations both found no running job, both
\* called createJob, and two jobs of the name are live
C23_Witness ==
    /\ switches > 0
    /\ "checkRunningJobs" \in Range(stages) /\ runningJobs = {}
    /\ "checkRunningJobs" \in Range(other.stages) /\ other.runningJobs = {}
    /\ calls.createJob = 1 /\ jobId # 0
    /\ other.calls.createJob = 1 /\ other.jobId # 0
    /\ jobId # other.jobId
    /\ LiveJobs = {jobId, other.jobId}

\* C24 as stated: a run that has called cancelJob calls createJob
C24_CancelOnlyIfCreate ==
    (pc = "done" /\ calls.cancelJob = 1) => calls.createJob = 1

\* C24 amended: a run calls cancelJob only on the one live job it found,
\* whose input is open, and before any createJob; a run that ends before or
\* in the conflict check without a cancel leaves every job uncancelled
C24_CancelOnlyOpenInputJob ==
    /\ calls.cancelJob = 1 =>
          /\ runningJobs = {runningJob}
          /\ ~jobs[runningJob].inputDone
          /\ pc = "cancelJob" => calls.createJob = 0
    /\ err \in {"JobDisabled", "GetObjectError", "ParseError", "GetJobError",
                "ListJobsError", "AlreadyRunning", "NameCollision"}
          => calls.cancelJob = 0
    /\ calls.createJob = 1 =>
          \A id \in runningJobs : id = runningJob /\ jobs[id].state = "done"

\* C24's case: the run cancelled the live job and then found no input
\* objects: no job is submitted
C24_Witness ==
    /\ pc = "done"
    /\ calls.cancelJob = 1
    /\ jobs[runningJob].state = "done"
    /\ err = "NoInputObjects"
    /\ calls.createJob = 0

\* C25: in the record of the invocation cronFailed = 1 exactly when the
\* invocation ended with a fatal error, and startedJob = 1 goes with
\* cronFailed = 0
C25_CronFailedIffFatal ==
    (pc = "done" /\ "audit" \in Range(trace)) =>
        /\ audit.cronFailed = 1 <=>
              err \notin {"none", "JobDisabled", "NoInputObjects", "AlreadyRunning"}
        /\ audit.startedJob = 1 => audit.cronFailed = 0

====
